---- MODULE Spec2Model ----
(***************************************************************************)
(* Model of autogpt/memory/vector/__init__.py (the memory backend          *)
(* selector get_memory and the supported_memory list), of the two memory   *)
(* providers it constructs, and of the huggingface path of generate_image  *)
(* exercised by tests/test_image_gen.py.                                   *)
(***************************************************************************)
EXTENDS Integers, Sequences, FiniteSets, TLC

VARIABLES
    supported_memory,  \* the module-level list of __init__.py:11
    providers,         \* the provider instances get_memory has returned
    live,              \* per provider: the items loaded or added since its last clear
    file,              \* the backing file of the file-backed provider
    nextId,            \* identity of the next MemoryItem handed to add
    last,              \* the most recent call and what it returned or raised
    watch,             \* a backend name and the first outcome seen for it
    img                \* the state of one generate_image call

vars == <<supported_memory, providers, live, file, nextId, last, watch, img>>

----------------------------------------------------------------------------
(* Bounds of the model *)

MaxProviders == 2
MaxAdds == 2
MaxK == 1

\* config.memory_backend values a caller may pass: the active names, the
\* retired names, the four names of the former optional-import blocks,
\* an unknown name and a case variant of an active one.
BackendNames ==
    {"json_file", "local", "no_memory", "pinecone", "redis", "weaviate",
     "milvus", "chroma", "Local"}

\* Unit-length embeddings of dimensionality 2.
Embeddings == {<<1, 0>>, <<0, 1>>}

None == "None"

----------------------------------------------------------------------------
(* get_memory: __init__.py lines 42-101 *)

PineconeMessage ==
    <<"The Pinecone memory backend has been rendered incompatible by work on ",
      "the memory system, and was removed.">>

RedisMessage ==
    <<"The Redis memory backend has been rendered incompatible by work on ",
      "the memory system, and has been removed temporarily.">>

WeaviateMessage ==
    <<"The Weaviate memory backend has been rendered incompatible by work on ",
      "the memory system, and was removed.">>

\* f"Unknown memory backend '{config.memory_backend}'. Please check your config."
UnknownMessage(memory_backend) ==
    <<"Unknown memory backend '", memory_backend, "'. Please check your config.">>

Raise(exc, msg) ==
    [raised |-> exc, message |-> msg, memory |-> None, ctors |-> <<>>]

Bind(kind) ==
    [raised |-> None, message |-> <<>>, memory |-> kind, ctors |-> <<kind>>]

\* Mutants of the if/elif chain.
get_memory_branch_local_unknown(memory_backend) ==
    IF memory_backend = "json_file" THEN Bind("JSONFileMemory")
    ELSE IF memory_backend \in {"pinecone", "redis", "weaviate"}
    THEN Raise("NotImplementedError", PineconeMessage)
    ELSE IF memory_backend = "no_memory" THEN Bind("NoMemory")
    ELSE Raise("ValueError", UnknownMessage(memory_backend))

get_memory_branch_redis_constructs(memory_backend) ==
    IF memory_backend = "json_file" \/ memory_backend = "local"
    THEN Bind("JSONFileMemory")
    ELSE IF memory_backend = "pinecone"
    THEN Raise("NotImplementedError", PineconeMessage)
    ELSE IF memory_backend = "redis"
    THEN [raised |-> "NotImplementedError", message |-> RedisMessage,
          memory |-> None, ctors |-> <<"JSONFileMemory">>]
    ELSE IF memory_backend = "weaviate"
    THEN Raise("NotImplementedError", WeaviateMessage)
    ELSE IF memory_backend = "no_memory" THEN Bind("NoMemory")
    ELSE Raise("ValueError", UnknownMessage(memory_backend))

get_memory_branch_static_message(memory_backend) ==
    IF memory_backend = "json_file" \/ memory_backend = "local"
    THEN Bind("JSONFileMemory")
    ELSE IF memory_backend = "pinecone"
    THEN Raise("NotImplementedError", PineconeMessage)
    ELSE IF memory_backend = "redis"
    THEN Raise("NotImplementedError", RedisMessage)
    ELSE IF memory_backend = "weaviate"
    THEN Raise("NotImplementedError", WeaviateMessage)
    ELSE IF memory_backend = "no_memory" THEN Bind("NoMemory")
    ELSE Raise("ValueError",
               <<"Unknown memory backend. Please check your config.">>)

get_memory_branch_no_memory_is_file(memory_backend) ==
    IF memory_backend = "json_file" \/ memory_backend = "local"
       \/ memory_backend = "no_memory"
    THEN Bind("JSONFileMemory")
    ELSE IF memory_backend = "pinecone"
    THEN Raise("NotImplementedError", PineconeMessage)
    ELSE IF memory_backend = "redis"
    THEN Raise("NotImplementedError", RedisMessage)
    ELSE IF memory_backend = "weaviate"
    THEN Raise("NotImplementedError", WeaviateMessage)
    ELSE Raise("ValueError", UnknownMessage(memory_backend))

\* the commented-out branch of lines 57-65: warn and leave memory unbound
get_memory_branch_pinecone_warns(memory_backend) ==
    IF memory_backend = "json_file" \/ memory_backend = "local"
    THEN Bind("JSONFileMemory")
    ELSE IF memory_backend = "pinecone"
    THEN [raised |-> None, message |-> <<>>, memory |-> None, ctors |-> <<>>]
    ELSE IF memory_backend = "redis"
    THEN Raise("NotImplementedError", RedisMessage)
    ELSE IF memory_backend = "weaviate"
    THEN Raise("NotImplementedError", WeaviateMessage)
    ELSE IF memory_backend = "no_memory" THEN Bind("NoMemory")
    ELSE Raise("ValueError", UnknownMessage(memory_backend))

\* a selector that hands out the file-backed store once only
get_memory_branch_once(memory_backend) ==
    IF memory_backend = "json_file" \/ memory_backend = "local"
    THEN IF Len(providers) = 0 THEN Bind("JSONFileMemory")
         ELSE Raise("ValueError", UnknownMessage(memory_backend))
    ELSE IF memory_backend = "pinecone"
    THEN Raise("NotImplementedError", PineconeMessage)
    ELSE IF memory_backend = "redis"
    THEN Raise("NotImplementedError", RedisMessage)
    ELSE IF memory_backend = "weaviate"
    THEN Raise("NotImplementedError", WeaviateMessage)
    ELSE IF memory_backend = "no_memory" THEN Bind("NoMemory")
    ELSE Raise("ValueError", UnknownMessage(memory_backend))

\* The if/elif chain of lines 46-97: what is raised, or what memory is
\* bound to and which constructors ran.
get_memory_branch(memory_backend) ==
    IF memory_backend = "json_file" \/ memory_backend = "local"
    THEN Bind("JSONFileMemory")
    ELSE IF memory_backend = "pinecone"
    THEN Raise("NotImplementedError", PineconeMessage)
    ELSE IF memory_backend = "redis"
    THEN Raise("NotImplementedError", RedisMessage)
    ELSE IF memory_backend = "weaviate"
    THEN Raise("NotImplementedError", WeaviateMessage)
    ELSE IF memory_backend = "no_memory"
    THEN Bind("NoMemory")
    ELSE Raise("ValueError", UnknownMessage(memory_backend))

\* The whole function: the chain, then the `if memory is None` fallback of
\* lines 98-99, then the return of line 101.
get_memory(memory_backend) ==
    LET r == get_memory_branch(memory_backend) IN
    IF r.raised # None
    THEN [raised |-> r.raised, message |-> r.message, memory |-> None,
          ctors |-> r.ctors, reachedCheck |-> FALSE, fallback |-> FALSE]
    ELSE IF r.memory = None
    THEN [raised |-> None, message |-> <<>>, memory |-> "JSONFileMemory",
          ctors |-> Append(r.ctors, "JSONFileMemory"),
          reachedCheck |-> TRUE, fallback |-> TRUE]
    ELSE [raised |-> None, message |-> <<>>, memory |-> r.memory,
          ctors |-> r.ctors, reachedCheck |-> TRUE, fallback |-> FALSE]

\* get_supported_memory_backends, lines 104-105
get_supported_memory_backends == supported_memory

----------------------------------------------------------------------------
(* The providers get_memory constructs.  providers/json_file.py and        *)
(* providers/no_memory.py are imported at lines 6-7; their behaviour is    *)
(* taken from the design (file-backed store, null store).                  *)

\* Cosine similarity; every embedding of the model has length 1, so the
\* norms divide out and the dot product remains.
Score(a, b) == a[1] * b[1] + a[2] * b[2]

\* The identities of the items of a sequence.
Ids(items) == {items[i].id : i \in 1..Len(items)}

\* The family of a backend name: the names documented as selecting the
\* file-backed store, the name selecting the null store, any other name.
NameFamily(memory_backend) ==
    IF memory_backend \in {"json_file", "local"} THEN "file"
    ELSE IF memory_backend = "no_memory" THEN "null"
    ELSE "other"

\* JSONFileMemory(config): load the backing file when it exists.  selectedBy
\* remembers the family of the name the provider was selected by.
JSONFileMemory(memory_backend) ==
    [kind |-> "JSONFileMemory", selectedBy |-> NameFamily(memory_backend),
     memories |-> IF file.exists THEN file.items ELSE <<>>]

\* NoMemory(): nothing to load.
NoMemory(memory_backend) ==
    [kind |-> "NoMemory", selectedBy |-> NameFamily(memory_backend),
     memories |-> <<>>]

Construct(kind, memory_backend) ==
    IF kind = "NoMemory" THEN NoMemory(memory_backend)
    ELSE JSONFileMemory(memory_backend)

\* add(item): append and rewrite the whole file; the null store keeps nothing.
Add(p, item) ==
    IF p.kind = "NoMemory"
    THEN [provider |-> p, file |-> file, result |-> 0]
    ELSE LET m == Append(p.memories, item) IN
         [provider |-> [p EXCEPT !.memories = m],
          file |-> [exists |-> TRUE, items |-> m], result |-> Len(m)]

\* a clear that forgets to empty the in-memory sequence
ClearKeepsItems(p) ==
    [provider |-> p, file |-> [exists |-> TRUE, items |-> <<>>]]

\* clear(): empty the store and overwrite the file; a no-op on the null store.
Clear(p) ==
    IF p.kind = "NoMemory"
    THEN [provider |-> p, file |-> file]
    ELSE [provider |-> [p EXCEPT !.memories = <<>>],
          file |-> [exists |-> TRUE, items |-> <<>>]]

\* get(index)
Get(p, index) ==
    IF p.kind = "NoMemory" THEN [error |-> "NotFound"]
    ELSE IF index \in 1..Len(p.memories)
    THEN [error |-> None, item |-> p.memories[index]]
    ELSE [error |-> "NotFound"]

\* count()
Count(p) == IF p.kind = "NoMemory" THEN 0 ELSE Len(p.memories)

\* The position of the best remaining item: highest score, earliest added.
Best(memories, q, left) ==
    CHOOSE i \in left :
        \A j \in left :
            \/ Score(memories[i].emb, q) > Score(memories[j].emb, q)
            \/ Score(memories[i].emb, q) = Score(memories[j].emb, q) /\ i <= j

RECURSIVE Ranked(_, _, _, _)
Ranked(memories, q, left, k) ==
    IF k <= 0 \/ left = {} THEN <<>>
    ELSE LET b == Best(memories, q, left) IN
         <<[item |-> memories[b], bestScore |-> Score(memories[b].emb, q)]>>
         \o Ranked(memories, q, left \ {b}, k - 1)

\* getRelevant(q, k): up to k items by descending bestScore, ties by
\* insertion order; empty for k <= 0 and on the null store.
GetRelevant(p, q, k) ==
    IF p.kind = "NoMemory" THEN <<>>
    ELSE Ranked(p.memories, q, 1..Len(p.memories), k)

----------------------------------------------------------------------------
(* The state machine *)

Outcome(r) == IF r.raised # None THEN r.raised ELSE r.memory

NoImg == [pc |-> "idle"]

Init ==
    /\ supported_memory = <<"json_file", "no_memory">>
    /\ providers = <<>>
    /\ live = <<>>
    /\ file = [exists |-> FALSE, items |-> <<>>]
    /\ nextId = 1
    /\ last = [op |-> "import"]
    /\ watch = [name |-> None, outcome |-> "none"]
    /\ img = NoImg

\* The selector alone, observed for one backend name.
InitSelector ==
    /\ supported_memory = <<"json_file", "no_memory">>
    /\ providers = <<>>
    /\ live = <<>>
    /\ file = [exists |-> FALSE, items |-> <<>>]
    /\ nextId = 1
    /\ last = [op |-> "import"]
    /\ watch \in [name : BackendNames, outcome : {"none"}]
    /\ img = NoImg

\* memory = get_memory(config) with config.memory_backend = b: everything
\* the call does to the program's state.
GetMemoryStep(b) ==
    LET r == get_memory(b) IN
    /\ r.raised # None \/ Len(providers) < MaxProviders
    /\ providers' = IF r.raised = None
                    THEN Append(providers, Construct(r.memory, b))
                    ELSE providers
    /\ live' = IF r.raised = None
               THEN Append(live, IF r.memory = "JSONFileMemory" /\ file.exists
                                 THEN Ids(file.items) ELSE {})
               ELSE live
    /\ last' = [op |-> "get_memory", backend |-> b, raised |-> r.raised,
                message |-> r.message, ctors |-> r.ctors,
                memory |-> r.memory, reachedCheck |-> r.reachedCheck,
                fallback |-> r.fallback, existed |-> Len(providers),
                fileReads |-> Cardinality({i \in 1..Len(r.ctors) :
                                             r.ctors[i] = "JSONFileMemory"}),
                provider |-> IF r.raised = None THEN Len(providers) + 1 ELSE 0]
    /\ UNCHANGED <<supported_memory, file, nextId, img>>

GetMemoryCall(b) ==
    /\ GetMemoryStep(b)
    /\ UNCHANGED watch

\* The same call with an observer that remembers the first outcome of the
\* watched backend name.
GetMemoryObserved(b) ==
    /\ GetMemoryStep(b)
    /\ watch' = IF watch.name = b /\ watch.outcome = "none"
                THEN [watch EXCEPT !.outcome = Outcome(get_memory(b))]
                ELSE watch

GetSupportedCall ==
    /\ last' = [op |-> "get_supported_memory_backends",
                result |-> get_supported_memory_backends]
    /\ UNCHANGED <<supported_memory, providers, live, file, nextId, watch, img>>

AddCall(p, emb) ==
    LET r == Add(providers[p], [id |-> nextId, emb |-> emb]) IN
    /\ nextId <= MaxAdds
    /\ providers' = [providers EXCEPT ![p] = r.provider]
    /\ live' = IF providers[p].kind = "JSONFileMemory"
               THEN [live EXCEPT ![p] = @ \cup {nextId}] ELSE live
    /\ file' = r.file
    /\ nextId' = nextId + 1
    /\ last' = [op |-> "add", provider |-> p, result |-> r.result]
    /\ UNCHANGED <<supported_memory, watch, img>>

ClearCall(p) ==
    LET r == Clear(providers[p]) IN
    /\ providers' = [providers EXCEPT ![p] = r.provider]
    /\ live' = [live EXCEPT ![p] = {}]
    /\ file' = r.file
    /\ last' = [op |-> "clear", provider |-> p]
    /\ UNCHANGED <<supported_memory, nextId, watch, img>>

GetCall(p, index) ==
    /\ last' = [op |-> "get", provider |-> p, index |-> index,
                result |-> Get(providers[p], index)]
    /\ UNCHANGED <<supported_memory, providers, live, file, nextId, watch, img>>

GetRelevantCall(p, q, k) ==
    /\ last' = [op |-> "getRelevant", provider |-> p, k |-> k,
                result |-> GetRelevant(providers[p], q, k)]
    /\ UNCHANGED <<supported_memory, providers, live, file, nextId, watch, img>>

CountCall(p) ==
    /\ last' = [op |-> "count", provider |-> p,
                result |-> Count(providers[p])]
    /\ UNCHANGED <<supported_memory, providers, live, file, nextId, watch, img>>

Next ==
    \/ \E b \in BackendNames : GetMemoryCall(b)
    \/ GetSupportedCall
    \/ \E p \in 1..Len(providers), emb \in Embeddings : AddCall(p, emb)
    \/ \E p \in 1..Len(providers) : ClearCall(p)
    \/ \E p \in 1..Len(providers), index \in 1..MaxAdds : GetCall(p, index)
    \/ \E p \in 1..Len(providers), q \in Embeddings, k \in -1..MaxK :
           GetRelevantCall(p, q, k)
    \/ \E p \in 1..Len(providers) : CountCall(p)

Spec == Init /\ [][Next]_vars

NextSelector ==
    \/ \E b \in BackendNames : GetMemoryObserved(b)
    \/ GetSupportedCall

SpecSelector == InitSelector /\ [][NextSelector]_vars

----------------------------------------------------------------------------
(* generate_image with the huggingface provider, as the failure tests of   *)
(* tests/test_image_gen.py drive it: requests.post and time.sleep are      *)
(* mocks, the response is whatever the mocked post returns.                *)

MaxDelay == 2
MaxRetries == 10

DigitValue == [t \in {"0", "1", "2", "3"} |-> CASE t = "0" -> 0 [] t = "1" -> 1
                                                [] t = "2" -> 2 [] t = "3" -> 3]

Digit(n) == CHOOSE t \in DOMAIN DigitValue : DigitValue[t] = n

\* The response texts, as token sequences.
\* '{"error":"Model ... is currently loading","estimated_time":d}'
WithDelay(d) ==
    <<"{", "error", ":", "loading", ",", "estimated_time", ":", Digit(d), "}">>

\* '{"error":"Model ... is currently loading"}'
NoDelay == <<"{", "error", ":", "loading", "}">>

\* '{"error:}' : a string that never ends
BadJson == <<"{", "error:}">>

ResponseTexts == {WithDelay(d) : d \in 0..MaxDelay} \cup {NoDelay, BadJson}

\* The responses requests.post may give: a failure with one of the texts,
\* or status 200 with content that is an image or is not.
Responses ==
    [ok : {FALSE}, text : ResponseTexts, image : {FALSE}]
    \cup [ok : {TRUE}, text : {<<>>}, image : BOOLEAN]

Punctuation == {"{", "}", ":", ","}

\* json.loads on an object of string keys: the members between the braces
\* are key ":" value, separated by ",".
json_loads(text) ==
    LET n == Len(text) - 2
        wellFormed ==
            /\ Len(text) >= 2
            /\ text[1] = "{"
            /\ text[Len(text)] = "}"
            /\ \/ n = 0
               \/ /\ n % 4 = 3
                  /\ \A j \in 0..(n \div 4) :
                        /\ text[2 + 4 * j] \notin Punctuation
                        /\ text[3 + 4 * j] = ":"
                        /\ text[4 + 4 * j] \notin Punctuation
                        /\ j > 0 => text[1 + 4 * j] = ","
        keys == {text[2 + 4 * j] : j \in 0..((n \div 4) - (IF n = 0 THEN 1 ELSE 0))}
    IN  IF wellFormed
        THEN [error |-> None,
              value |-> [k \in keys |->
                            text[(CHOOSE i \in 2..Len(text) : text[i] = k) + 2]]]
        ELSE [error |-> "JSONDecodeError"]

\* a loop that waits a default delay whenever the text parses
HandleFailureDefaultDelay(response) ==
    LET error == json_loads(response.text) IN
    IF error.error # None THEN [sleeps |-> <<>>, retry |-> FALSE]
    ELSE IF "estimated_time" \in DOMAIN error.value
    THEN [sleeps |-> <<DigitValue[error.value["estimated_time"]]>>,
          retry |-> TRUE]
    ELSE [sleeps |-> <<0>>, retry |-> TRUE]

\* The else branch of the retry loop: what a failed response makes the
\* loop do, the time.sleep calls it makes and whether it goes round again.
HandleFailure(response) ==
    LET error == json_loads(response.text) IN
    IF error.error # None THEN [sleeps |-> <<>>, retry |-> FALSE]
    ELSE IF "estimated_time" \in DOMAIN error.value
    THEN [sleeps |-> <<DigitValue[error.value["estimated_time"]]>>,
          retry |-> TRUE]
    ELSE [sleeps |-> <<>>, retry |-> FALSE]

InitImage ==
    /\ supported_memory = <<"json_file", "no_memory">>
    /\ providers = <<>>
    /\ live = <<>>
    /\ file = [exists |-> FALSE, items |-> <<>>]
    /\ nextId = 1
    /\ last = [op |-> "import"]
    /\ watch = [name |-> None, outcome |-> "none"]
    /\ img = NoImg

\* generate_image("astronaut riding a horse", 512) is called; without an
\* API token it raises ValueError before any request.
GenerateImage(token) ==
    /\ img.pc \in {"idle", "returned", "raised"}
    /\ img' = IF token
              THEN [pc |-> "loop", retry_count |-> 0, anyOk |-> FALSE,
                    mock_sleep |-> [call_count |-> 0, call_args |-> None],
                    mock_post |-> [call_count |-> 0]]
              ELSE [pc |-> "raised", raised |-> "ValueError",
                    mock_sleep |-> [call_count |-> 0, call_args |-> None],
                    mock_post |-> [call_count |-> 0]]
    /\ UNCHANGED <<supported_memory, providers, live, file, nextId, last, watch>>

\* One round of the retry loop: the request, and everything done with its
\* response up to the next request or the return.
Request(response) ==
    /\ img.pc = "loop"
    /\ img.retry_count < MaxRetries
    /\ LET h == IF response.ok THEN [sleeps |-> <<>>, retry |-> FALSE]
                ELSE HandleFailure(response)
           slept == [call_count |-> img.mock_sleep.call_count + Len(h.sleeps),
                     call_args |-> IF h.sleeps = <<>>
                                   THEN img.mock_sleep.call_args
                                   ELSE <<h.sleeps[Len(h.sleeps)]>>]
           posted == [call_count |-> img.mock_post.call_count + 1]
       IN  img' =
             IF response.ok /\ response.image
             THEN [pc |-> "returned", result |-> "Saved to disk:",
                   response |-> response, sleeps |-> h.sleeps,
                   anyOk |-> TRUE, mock_sleep |-> slept, mock_post |-> posted]
             ELSE IF h.retry /\ img.retry_count + 1 < MaxRetries
             THEN [pc |-> "loop", retry_count |-> img.retry_count + 1,
                   response |-> response, sleeps |-> h.sleeps,
                   anyOk |-> img.anyOk, mock_sleep |-> slept,
                   mock_post |-> posted]
             ELSE [pc |-> "returned", result |-> "Error creating image.",
                   response |-> response, sleeps |-> h.sleeps,
                   anyOk |-> img.anyOk \/ response.ok, mock_sleep |-> slept,
                   mock_post |-> posted]
    /\ UNCHANGED <<supported_memory, providers, live, file, nextId, last, watch>>

NextImage ==
    \/ \E token \in BOOLEAN : GenerateImage(token)
    \/ \E response \in Responses : Request(response)

SpecImage ==
    /\ InitImage
    /\ [][NextImage]_vars
    /\ WF_vars(\E response \in Responses : Request(response))

----------------------------------------------------------------------------
(* The claims *)

ActiveFileNames == {"json_file", "local"}
RetiredNames == {"pinecone", "redis", "weaviate"}
FormerBackends == {"redis", "pinecone", "weaviate", "milvus"}

Elements(seq) == {seq[i] : i \in 1..Len(seq)}

IsGetMemory == last.op = "get_memory"

\* C1: for memory_backend "json_file" or "local" get_memory returns a newly
\* constructed JSONFileMemory, for "no_memory" a newly constructed NoMemory,
\* and for no other name does it return a provider.
C1_ActiveNamesConstruct ==
    IsGetMemory =>
        /\ last.backend \in ActiveFileNames =>
              /\ last.raised = None
              /\ last.memory = "JSONFileMemory"
              /\ last.ctors = <<"JSONFileMemory">>
              /\ last.provider = last.existed + 1
              /\ Len(providers) = last.provider
              /\ providers[last.provider].kind = "JSONFileMemory"
              /\ providers[last.provider].selectedBy = "file"
        /\ last.backend = "no_memory" =>
              /\ last.raised = None
              /\ last.memory = "NoMemory"
              /\ last.ctors = <<"NoMemory">>
              /\ last.provider = last.existed + 1
              /\ Len(providers) = last.provider
              /\ providers[last.provider].kind = "NoMemory"
              /\ providers[last.provider].selectedBy = "null"
        /\ last.backend \notin ActiveFileNames \cup {"no_memory"} =>
              /\ last.raised # None
              /\ last.memory = None
              /\ last.provider = 0
              /\ Len(providers) = last.existed

\* "local" has just selected a second, new file-backed provider.
C1_Witness ==
    /\ IsGetMemory
    /\ last.backend = "local"
    /\ last.raised = None
    /\ last.existed = 1
    /\ providers[2].kind = "JSONFileMemory"

\* C2: for "pinecone", "redis" and "weaviate" get_memory raises
\* NotImplementedError with an explanatory message, runs no provider
\* constructor, returns no provider and reads no file.
C2_RetiredNamesFail ==
    (IsGetMemory /\ last.backend \in RetiredNames) =>
        /\ last.raised = "NotImplementedError"
        /\ last.message # <<>>
        /\ last.ctors = <<>>
        /\ last.fileReads = 0
        /\ last.memory = None
        /\ last.provider = 0
        /\ Len(providers) = last.existed

\* "redis" was refused while a backing file already existed.
C2_Witness ==
    /\ IsGetMemory
    /\ last.backend = "redis"
    /\ last.raised = "NotImplementedError"
    /\ file.exists

\* C3: for every name that is neither active nor retired get_memory raises
\* ValueError with a message that contains the name, and constructs and
\* returns no provider.
C3_UnknownNamesFail ==
    (IsGetMemory
     /\ last.backend \notin ActiveFileNames \cup {"no_memory"} \cup RetiredNames) =>
        /\ last.raised = "ValueError"
        /\ last.backend \in Elements(last.message)
        /\ last.ctors = <<>>
        /\ last.memory = None
        /\ last.provider = 0
        /\ Len(providers) = last.existed

\* "chroma" was refused by name.
C3_Witness ==
    /\ IsGetMemory
    /\ last.backend = "chroma"
    /\ last.raised = "ValueError"
    /\ "chroma" \in Elements(last.message)

C5_RelevantBoundedAndLive ==
    (last.op = "getRelevant"
     /\ providers[last.provider].selectedBy = "file") =>
        /\ last.k <= 0 => last.result = <<>>
        /\ last.k > 0 => Len(last.result) <= last.k
        /\ \A i \in 1..Len(last.result) :
              last.result[i].item.id \in live[last.provider]
        /\ live[last.provider] = {} => last.result = <<>>

\* The only provider was given item 1, cleared, given item 2, and
\* getRelevant returns item 2 alone.
C5_Witness ==
    /\ last.op = "getRelevant"
    /\ Len(providers) = 1
    /\ providers[1].selectedBy = "file"
    /\ nextId = 3
    /\ live[1] = {2}
    /\ Len(last.result) = 1
    /\ last.result[1].item.id = 2

CarriesDelay(text) == \E d \in 0..MaxDelay : text = WithDelay(d)

DelayOf(text) == CHOOSE d \in 0..MaxDelay : text = WithDelay(d)

C6_SleepIffDelay ==
    (img.pc \in {"loop", "returned"} /\ img.mock_post.call_count > 0
     /\ ~img.response.ok) =>
        /\ CarriesDelay(img.response.text) =>
              /\ img.sleeps = <<DelayOf(img.response.text)>>
              /\ img.mock_sleep.call_args = <<DelayOf(img.response.text)>>
        /\ ~CarriesDelay(img.response.text) =>
              /\ img.sleeps = <<>>
              /\ img.pc = "returned"
        /\ img.mock_sleep.call_count <= img.mock_post.call_count
        /\ (img.pc = "returned" /\ ~img.anyOk) =>
              img.result = "Error creating image."

\* C6: when a huggingface request fails, generate_image sleeps exactly when
\* the response text is JSON with an estimated_time, and for that delay;
\* every call that entered the retry loop leaves it, and a run of failed
\* requests returns "Error creating image.".
C6_FailingRequests ==
    /\ []C6_SleepIffDelay
    /\ (img.pc = "loop") ~> (img.pc = "returned")

\* Ten requests were all answered with a delay of 1; the call slept ten
\* times and returned the error.
C6_Witness ==
    /\ img.pc = "returned"
    /\ img.result = "Error creating image."
    /\ img.mock_post.call_count = MaxRetries
    /\ img.mock_sleep.call_count = MaxRetries
    /\ img.mock_sleep.call_args = <<1>>

\* C7: every one of "redis", "pinecone", "weaviate" and "milvus" is refused
\* with NotImplementedError, never with ValueError.
C7_FormerBackendsRetired ==
    (IsGetMemory /\ last.backend \in FormerBackends) =>
        last.raised = "NotImplementedError"

\* C8: the `if memory is None` fallback never runs: a call raises before
\* the check, or reaches it with memory bound to the provider its branch
\* constructed; no file-backed provider stands in for another name.
C8_FallbackUnreachable ==
    /\ IsGetMemory =>
          /\ ~last.fallback
          /\ \/ last.raised # None /\ ~last.reachedCheck
             \/ /\ last.raised = None
                /\ last.reachedCheck
                /\ last.memory # None
                /\ Len(last.ctors) = 1
    /\ \A p \in 1..Len(providers) :
          providers[p].kind = "JSONFileMemory" => providers[p].selectedBy = "file"

\* "no_memory" reached the check with memory bound to a NoMemory.
C8_Witness ==
    /\ IsGetMemory
    /\ last.backend = "no_memory"
    /\ last.reachedCheck
    /\ last.memory = "NoMemory"

\* C9: the names for which get_memory returns a provider are exactly the
\* names get_supported_memory_backends() returns, and no call changes the
\* list.
C9_SupportedAgreesWithSelection ==
    /\ supported_memory = <<"json_file", "no_memory">>
    /\ IsGetMemory =>
          (last.raised = None
           <=> last.backend \in Elements(get_supported_memory_backends))

FourOutcomes == {"JSONFileMemory", "NoMemory", "NotImplementedError", "ValueError"}

LastOutcome == IF last.raised # None THEN last.raised ELSE last.memory

\* C10: every call of get_memory ends in exactly one of the four outcomes,
\* the outcome is the one the same name had the first time it was passed,
\* a call that returns ran exactly one constructor and a call that raises
\* ran none.
C10_TotalAndDeterministic ==
    IsGetMemory =>
        /\ LastOutcome \in FourOutcomes
        /\ last.raised \in {None, "NotImplementedError", "ValueError"}
        /\ last.raised # None => last.memory = None /\ last.provider = 0
        /\ last.raised = None => Len(last.ctors) = 1 /\ last.provider > 0
        /\ last.raised # None => last.ctors = <<>>
        /\ watch.name = last.backend => watch.outcome = LastOutcome

\* "no_memory" is watched and has been passed twice.
C10_Witness ==
    /\ IsGetMemory
    /\ last.backend = "no_memory"
    /\ watch.name = "no_memory"
    /\ watch.outcome = "NoMemory"
    /\ last.existed = 1
    /\ providers[1].selectedBy = "null"

====
